---------------------------- MODULE Spec2Model ----------------------------
(***************************************************************************)
(* Supply Chain Sentinel Agent (src/main.py): the Streamlit session state  *)
(* (supply_data, impact, history, events), the two button handlers, and    *)
(* the four functions they call.                                           *)
(*                                                                         *)
(* Number representation.  Days_of_Supply is a quotient of two integers;   *)
(* it is held as a fraction [num, den]: the builder stores stock/cons      *)
(* unrounded (den = Daily_Consumption), the classifier stores the quotient *)
(* rounded to one decimal (den = 10, num = the value in tenths).  Money    *)
(* computed from one-decimal day counts is held in tenths of a currency    *)
(* unit.  random.uniform(1.20, 1.50) is held as a numerator over FactorDen.*)
(* Float arithmetic on days and money is modelled by exact arithmetic.     *)
(***************************************************************************)
EXTENDS Integers, Sequences, FiniteSets, TLC

VARIABLES session_state, df_after_events, last_button

vars == <<session_state, df_after_events, last_button>>

---------------------------------------------------------------------------
(* Bounds of the model *)

\* Runs allowed between two resets (the program keeps no such limit).
MaxRuns == 2

\* Resolution of the random spike factor: factors are n / FactorDen.
FactorDen == 50

---------------------------------------------------------------------------
(* Program constants *)

critical_threshold_days == 15

AIR_FREIGHT_PREMIUM_PER_SHIPMENT == 120000

NumRows == 8

PortCongestion == "Port Congestion"
GeopoliticalTension == "Geopolitical Tension"
ProductionSlowdown == "Production Slowdown"
DemandSpike == "Demand Spike"

possible_events ==
    {PortCongestion, GeopoliticalTension, ProductionSlowdown, DemandSpike}

\* A variant of DelayRange: the port delay drawn from 5..11.
DelayRange_wide(event_type) ==
    CASE event_type = PortCongestion -> 5..11
      [] event_type = GeopoliticalTension -> 7..12
      [] event_type = ProductionSlowdown -> 4..8

\* random.randint(a, b) of each delay event: both ends included.
DelayRange(event_type) ==
    CASE event_type = PortCongestion -> 5..10
      [] event_type = GeopoliticalTension -> 7..12
      [] event_type = ProductionSlowdown -> 4..8

\* The column whose distinct values an event type chooses its key from.
KeyOf(event_type, row) ==
    CASE event_type = PortCongestion -> row.Shipping_Lane
      [] event_type = GeopoliticalTension -> row.Origin
      [] event_type = ProductionSlowdown -> row.Supplier
      [] event_type = DemandSpike -> row.Component

\* random.uniform(1.20, 1.50) is 1.20 + (1.50 - 1.20) * random(): every value
\* from 1.20 up to 1.50, and 1.50 itself when the sum rounds up to it (it does
\* for the largest values of random()).  As numerators over FactorDen.
SpikeFactors == {n \in 0..(2 * FactorDen) : 12 * FactorDen <= 10 * n /\ 10 * n <= 15 * FactorDen}

---------------------------------------------------------------------------
(* get_initial_data *)

Components == <<"CPU Model A", "GPU Model X", "16GB DDR5 RAM", "1TB NVMe SSD",
                "Power Supply Unit", "Chassis Type B", "Motherboard Z", "Cooling Fan">>
Suppliers == <<"Intel", "Nvidia", "Micron", "Samsung",
               "Delta Electronics", "Foxconn", "ASUS", "Nidec">>
Origins == <<"USA", "Taiwan", "Singapore", "South Korea",
             "Taiwan", "China", "Taiwan", "China">>
Shipping_Lanes == <<"Trans-Pacific", "Taiwan-US", "Intra-Asia", "Korea-US",
                    "Taiwan-US", "Intra-Asia", "Taiwan-US", "Intra-Asia">>
Lead_Times == <<25, 30, 15, 20, 30, 12, 28, 14>>
On_Hand_Stocks == <<15000, 8000, 40000, 25000, 18000, 50000, 12000, 80000>>
Daily_Consumptions == <<500, 250, 1200, 800, 600, 1500, 400, 2500>>
Revenues_Per_Unit == <<400, 600, 80, 120, 50, 25, 150, 10>>
Secondary_Suppliers == <<"AMD", "AMD", "Hynix", "Kioxia",
                         "Lite-On", "Inventec", "Gigabyte", "Sunon">>

\* The alert strings, by their fixed text and the one number they format.
NoAlert == [text |-> "-", tenths |-> 0]
WarningAlert == [text |-> "WARNING: Supply below threshold. Monitor closely.",
                 tenths |-> critical_threshold_days * 10]
ActionAlert(shortfall10) ==
    [text |-> "ACTION: Projected shortfall. Expedite next shipment via Air Freight.",
     tenths |-> shortfall10]

get_initial_data ==
    [i \in 1..NumRows |->
        [Component |-> Components[i],
         Supplier |-> Suppliers[i],
         Origin |-> Origins[i],
         Shipping_Lane |-> Shipping_Lanes[i],
         Lead_Time_Days |-> Lead_Times[i],
         On_Hand_Stock |-> On_Hand_Stocks[i],
         Daily_Consumption |-> Daily_Consumptions[i],
         Revenue_Per_Unit |-> Revenues_Per_Unit[i],
         Secondary_Supplier |-> Secondary_Suppliers[i],
         Status |-> "Nominal",
         Alerts |-> NoAlert,
         Days_of_Supply |-> [num |-> On_Hand_Stocks[i], den |-> Daily_Consumptions[i]]]]

---------------------------------------------------------------------------
(* simulate_disruptive_events *)

\* One pass of the loop body, as the random outcomes it draws: the event type,
\* the key chosen among the distinct values of the type's column, and the
\* magnitude (days of delay, or the numerator of the spike factor).
Draws(df) ==
    UNION {
        {[event_type |-> t, key |-> KeyOf(t, df[i]), magnitude |-> m] :
            i \in DOMAIN df, m \in DelayRange(t)} :
        t \in {PortCongestion, GeopoliticalTension, ProductionSlowdown}}
    \cup {[event_type |-> DemandSpike, key |-> df[i].Component, magnitude |-> n] :
            i \in DOMAIN df, n \in SpikeFactors}

\* int(consumption * spike_factor): the product, truncated.
SpikeConsumption(consumption, n) == (consumption * n) \div FactorDen

\* A variant of ApplyDraw: the assignment without its row mask.
ApplyDraw_unmasked(df, d) ==
    [i \in DOMAIN df |->
        IF d.event_type = DemandSpike
        THEN [df[i] EXCEPT !.Daily_Consumption = SpikeConsumption(@, d.magnitude)]
        ELSE [df[i] EXCEPT !.Lead_Time_Days = @ + d.magnitude]]

\* The df.loc[mask, column] assignment of one event.
ApplyDraw(df, d) ==
    [i \in DOMAIN df |->
        IF KeyOf(d.event_type, df[i]) # d.key THEN df[i]
        ELSE IF d.event_type = DemandSpike
             THEN [df[i] EXCEPT !.Daily_Consumption = SpikeConsumption(@, d.magnitude)]
             ELSE [df[i] EXCEPT !.Lead_Time_Days = @ + d.magnitude]]

\* Half-even rounding of a / b to an integer (a >= 0, b > 0).
RoundHalfEven(a, b) ==
    LET q == a \div b
        r == a % b
    IN  IF 2 * r < b THEN q
        ELSE IF 2 * r > b THEN q + 1
        ELSE IF q % 2 = 0 THEN q ELSE q + 1

\* The f"{spike_factor:.0%}" of the details string: the factor as a whole percent.
FormatPercent(n) == RoundHalfEven(100 * n, FactorDen)

\* The dict appended to events: its type and what its details string names.
EventOf(d) ==
    [type |-> d.event_type,
     key |-> d.key,
     magnitude |-> IF d.event_type = DemandSpike THEN FormatPercent(d.magnitude)
                   ELSE d.magnitude]

RECURSIVE ApplyDraws(_, _)
ApplyDraws(df, draws) ==
    IF draws = <<>> THEN df
    ELSE ApplyDraws(ApplyDraw(df, Head(draws)), Tail(draws))

\* The function, given the outcomes of its random draws (1 or 2 passes).
simulate_disruptive_events(df, draws) ==
    [df |-> ApplyDraws(df, draws),
     events |-> [k \in DOMAIN draws |-> EventOf(draws[k])]]

\* num_events = random.randint(1, 2), then the draws of each pass; a pass
\* chooses its key from the table as the earlier passes left it (the key
\* columns are never written, so the choice is the same on any pass).
DrawSeqs(df) ==
    {<<d>> : d \in Draws(df)} \cup {<<d1, d2>> : d1 \in Draws(df), d2 \in Draws(df)}

---------------------------------------------------------------------------
(* run_sentinel_agent *)

\* A variant of RoundedDaysOfSupply: the quotient truncated to one decimal.
RoundedDaysOfSupply_truncated(stock, consumption) == (10 * stock) \div consumption

\* (stock / consumption).round(1), in tenths of a day: the float quotient
\* times 10, rounded to the nearest integer, ties to even.  On every stock and
\* consumption the program reaches, the float result is that of the exact
\* quotient.
RoundedDaysOfSupply(stock, consumption) == RoundHalfEven(10 * stock, consumption)

\* A variant of ClassifyRow: CRITICAL already at a projected supply of 0.
ClassifyRow_le(row) ==
    LET dos10 == RoundedDaysOfSupply(row.On_Hand_Stock, row.Daily_Consumption)
        projected10 == dos10 - 10 * row.Lead_Time_Days
        r == [row EXCEPT !.Days_of_Supply = [num |-> dos10, den |-> 10]]
    IN  IF projected10 <= 0
        THEN [r EXCEPT !.Status = "CRITICAL", !.Alerts = ActionAlert(-projected10)]
        ELSE IF dos10 < 10 * critical_threshold_days
        THEN [r EXCEPT !.Status = "WARNING", !.Alerts = WarningAlert]
        ELSE [r EXCEPT !.Status = "Nominal", !.Alerts = NoAlert]

\* The body of the loop over df.iterrows().
ClassifyRow(row) ==
    LET dos10 == RoundedDaysOfSupply(row.On_Hand_Stock, row.Daily_Consumption)
        projected10 == dos10 - 10 * row.Lead_Time_Days
        r == [row EXCEPT !.Days_of_Supply = [num |-> dos10, den |-> 10]]
    IN  IF projected10 < 0
        THEN [r EXCEPT !.Status = "CRITICAL", !.Alerts = ActionAlert(-projected10)]
        ELSE IF dos10 < 10 * critical_threshold_days
        THEN [r EXCEPT !.Status = "WARNING", !.Alerts = WarningAlert]
        ELSE [r EXCEPT !.Status = "Nominal", !.Alerts = NoAlert]

run_sentinel_agent(df) == [i \in DOMAIN df |-> ClassifyRow(df[i])]

---------------------------------------------------------------------------
(* calculate_business_impact *)

\* "Projected shortfall" in row['Alerts']
MentionsProjectedShortfall(alert) == alert.text = ActionAlert(0).text

\* A variant of ShortfallDays10: the classifier's sign convention.
ShortfallDays10_reversed(row) ==
    (10 * row.Days_of_Supply.num) \div row.Days_of_Supply.den - 10 * row.Lead_Time_Days

\* row['Lead_Time_Days'] - row['Days_of_Supply'], in tenths of a day; the
\* table is a classified one, whose Days_of_Supply has one decimal.
ShortfallDays10(row) ==
    10 * row.Lead_Time_Days - (10 * row.Days_of_Supply.num) \div row.Days_of_Supply.den

\* The loop over critical_items: the running (loss, cost) after rows 1..n,
\* the loss in tenths of a currency unit.
RECURSIVE ImpactLoop(_, _)
ImpactLoop(df, n) ==
    IF n = 0 THEN [loss10 |-> 0, cost |-> 0]
    ELSE LET acc == ImpactLoop(df, n - 1)
             row == df[n]
         IN  IF /\ row.Status = "CRITICAL"
                /\ MentionsProjectedShortfall(row.Alerts)
                /\ ShortfallDays10(row) > 0
             THEN [loss10 |-> acc.loss10
                       + ShortfallDays10(row) * (row.Daily_Consumption * row.Revenue_Per_Unit),
                   cost |-> acc.cost + AIR_FREIGHT_PREMIUM_PER_SHIPMENT]
             ELSE acc

\* A variant of calculate_business_impact: the net value as cost - loss.
calculate_business_impact_swapped(df) ==
    LET acc == ImpactLoop(df, Len(df))
    IN  <<acc.loss10, 10 * acc.cost, 10 * acc.cost - acc.loss10>>

\* (total_potential_loss, total_mitigation_cost, net_value_generated), each in
\* tenths of a currency unit.
calculate_business_impact(df) ==
    LET acc == ImpactLoop(df, Len(df))
    IN  <<acc.loss10, 10 * acc.cost, acc.loss10 - 10 * acc.cost>>

---------------------------------------------------------------------------
(* The session and its two button handlers *)

\* st.session_state.impact = None
None == <<>>

\* The `if 'supply_data' not in st.session_state` block: no events key yet.
FreshSession ==
    [supply_data |-> get_initial_data, impact |-> None, history |-> <<>>]

HasEvents(s) == "events" \in DOMAIN s

Init ==
    /\ session_state = FreshSession
    /\ df_after_events = <<>>
    /\ last_button = "none"

\* A variant of HistoryEntry: the net value recorded as it is.
HistoryEntry_unclamped(history, impact) ==
    [Run |-> Len(history) + 1, Net_Value_Generated |-> impact[3]]

\* A variant of HistoryEntry: the run number taken before the append.
HistoryEntry_offByOne(history, impact) ==
    [Run |-> Len(history),
     Net_Value_Generated |-> IF impact[3] > 0 THEN impact[3] ELSE 0]

\* The history entry of a run: non-positive net values are recorded as 0.
HistoryEntry(history, impact) ==
    [Run |-> Len(history) + 1,
     Net_Value_Generated |-> IF impact[3] > 0 THEN impact[3] ELSE 0]

\* A variant of RunSimulation: the simulator given the stored table.
RunSimulation_onStoredTable(draws) ==
    LET sim == simulate_disruptive_events(session_state.supply_data, draws)
        df_after_agent == run_sentinel_agent(sim.df)
        impact == calculate_business_impact(df_after_agent)
    IN  /\ session_state' =
              [events |-> sim.events,
               supply_data |-> df_after_agent,
               impact |-> impact,
               history |-> Append(session_state.history,
                                  HistoryEntry(session_state.history, impact))]
        /\ df_after_events' = sim.df
        /\ last_button' = "run"

\* "Simulate Events & Run Agent", the whole handler, for one outcome of the
\* simulator's random draws.  df_after_events records the table the simulator
\* returned, as it is before run_sentinel_agent rewrites it in place.
RunSimulation(draws) ==
    LET sim == simulate_disruptive_events(get_initial_data, draws)
        df_after_agent == run_sentinel_agent(sim.df)
        impact == calculate_business_impact(df_after_agent)
    IN  /\ session_state' =
              [events |-> sim.events,
               supply_data |-> df_after_agent,
               impact |-> impact,
               history |-> Append(session_state.history,
                                  HistoryEntry(session_state.history, impact))]
        /\ df_after_events' = sim.df
        /\ last_button' = "run"

\* A variant of ResetSimulation: the history and the events left as they are.
ResetSimulation_keepsHistory ==
    /\ session_state' = [session_state EXCEPT !.supply_data = get_initial_data,
                                               !.impact = None]
    /\ df_after_events' = <<>>
    /\ last_button' = "reset"

\* "Reset Simulation", the whole handler.
ResetSimulation ==
    /\ session_state' = [supply_data |-> get_initial_data, impact |-> None, history |-> <<>>]
    /\ df_after_events' = <<>>
    /\ last_button' = "reset"

---------------------------------------------------------------------------
(* Specifications *)

\* The session over several runs.  The draws are a sample of the simulator's
\* outcomes: every event type, at the top of its range, on the keys of the
\* first and the last component.
SessionComponents == {"CPU Model A", "Cooling Fan"}

Maximum(S) == CHOOSE x \in S : \A y \in S : y <= x

SessionDraws(df) ==
    {d \in Draws(df) :
        /\ \E i \in DOMAIN df :
              df[i].Component \in SessionComponents /\ KeyOf(d.event_type, df[i]) = d.key
        /\ d.magnitude = IF d.event_type = DemandSpike THEN Maximum(SpikeFactors)
                         ELSE Maximum(DelayRange(d.event_type))}

SessionDrawSeqs(df) ==
    {<<d>> : d \in SessionDraws(df)}
    \cup {<<d1, d2>> : d1 \in SessionDraws(df), d2 \in SessionDraws(df)}

Run ==
    /\ Len(session_state.history) < MaxRuns
    /\ \E draws \in SessionDrawSeqs(get_initial_data) : RunSimulation(draws)

Reset == ResetSimulation

Next == Run \/ Reset

Spec == Init /\ [][Next]_vars

\* One run from a fresh session, over every outcome of the simulator's draws.
RunOnce ==
    /\ session_state.history = <<>>
    /\ \E draws \in DrawSeqs(get_initial_data) : RunSimulation(draws)

NextOnce == RunOnce \/ Reset

SpecOneRun == Init /\ [][NextOnce]_vars

---------------------------------------------------------------------------
(* Vocabulary of the properties *)

Base == get_initial_data

Table == session_state.supply_data

\* The stored table is a classified one: a run wrote it.
AfterRun == last_button = "run"

\* Event e (a stored event) selected base record row.
EventMatches(e, row) == KeyOf(e.type, row) = e.key

IsDelayEvent(e) == e.type \in {PortCongestion, GeopoliticalTension, ProductionSlowdown}

RECURSIVE DelaySum(_, _)
\* The days the delay events of a sequence add to a record.
DelaySum(events, row) ==
    IF events = <<>> THEN 0
    ELSE (IF IsDelayEvent(Head(events)) /\ EventMatches(Head(events), row)
          THEN Head(events).magnitude ELSE 0) + DelaySum(Tail(events), row)

\* The number of Demand Spike events of a sequence on a record.
SpikeCount(events, row) ==
    Cardinality({k \in DOMAIN events :
                    events[k].type = DemandSpike /\ EventMatches(events[k], row)})

\* c2 = trunc(c * f) for some real f with 1.20 <= f < 1.50
SpikedBelow150(c, c2) == 12 * c < 10 * (c2 + 1) /\ 10 * c2 < 15 * c

\* c2 = trunc(c * f) for some real f with 1.20 <= f <= 1.50
SpikedUpTo150(c, c2) == 12 * c < 10 * (c2 + 1) /\ 10 * c2 <= 15 * c

\* |d - stock / consumption| <= 0.05 for the Days_of_Supply d of a record
WithinRounding(row) ==
    LET diff == row.Days_of_Supply.num * row.Daily_Consumption
                    - row.On_Hand_Stock * row.Days_of_Supply.den
    IN  20 * (IF diff < 0 THEN -diff ELSE diff)
            <= row.Days_of_Supply.den * row.Daily_Consumption

RECURSIVE SumOver(_, _)
\* The sum of the loss terms of the records of a table indexed by S.
SumOver(df, S) ==
    IF S = {} THEN 0
    ELSE LET i == CHOOSE x \in S : TRUE
         IN  (10 * df[i].Lead_Time_Days - df[i].Days_of_Supply.num)
                 * df[i].Daily_Consumption * df[i].Revenue_Per_Unit
             + SumOver(df, S \ {i})

CriticalRows(df) == {i \in DOMAIN df : df[i].Status = "CRITICAL"}

\* The records the Impact Calculator counts.
QualifyingRows(df) ==
    {i \in CriticalRows(df) :
        /\ df[i].Alerts.text = "ACTION: Projected shortfall. Expedite next shipment via Air Freight."
        /\ 10 * df[i].Lead_Time_Days > df[i].Days_of_Supply.num}

---------------------------------------------------------------------------
(* C1 *)

\* C1: after run_sentinel_agent every record has exactly one status of
\* CRITICAL, WARNING, Nominal; with days-of-supply = stock / consumption
\* rounded to one decimal and projected = days-of-supply - lead time, the
\* status is CRITICAL iff projected < 0, WARNING iff projected >= 0 and
\* days-of-supply < 15, Nominal otherwise.  Stock 15000, consumption 500, lead
\* time 25 is Nominal; the same with lead time 35 is CRITICAL with a reported
\* shortfall of 5.0 days.
C1_ClassifierRule ==
    AfterRun =>
        \A i \in DOMAIN Table :
            LET row == Table[i]
                in == df_after_events[i]
                dos10 == row.Days_of_Supply.num
                projected10 == dos10 - 10 * in.Lead_Time_Days
            IN  /\ in.Daily_Consumption > 0
                /\ row.Days_of_Supply.den = 10
                /\ 20 * in.On_Hand_Stock - in.Daily_Consumption
                       <= 2 * dos10 * in.Daily_Consumption
                /\ 2 * dos10 * in.Daily_Consumption
                       <= 20 * in.On_Hand_Stock + in.Daily_Consumption
                /\ row.Status \in {"CRITICAL", "WARNING", "Nominal"}
                /\ row.Status = "CRITICAL" <=> projected10 < 0
                /\ row.Status = "WARNING" <=> (projected10 >= 0 /\ dos10 < 150)
                /\ row.Status = "Nominal" <=> (projected10 >= 0 /\ dos10 >= 150)
                /\ (in.On_Hand_Stock = 15000 /\ in.Daily_Consumption = 500
                        /\ in.Lead_Time_Days = 25) => row.Status = "Nominal"
                /\ (in.On_Hand_Stock = 15000 /\ in.Daily_Consumption = 500
                        /\ in.Lead_Time_Days = 35)
                    => (row.Status = "CRITICAL" /\ row.Alerts.tenths = 50)

\* A classified table with a WARNING record beside Nominal ones.
C1_Witness ==
    /\ AfterRun
    /\ \E i \in DOMAIN Table : Table[i].Status = "WARNING"
    /\ \E i \in DOMAIN Table : Table[i].Status = "Nominal"

---------------------------------------------------------------------------
(* C2 *)

\* C2: calculate_business_impact on a classified table returns (loss, cost,
\* net): loss the sum over the qualifying CRITICAL rows of (lead time -
\* days-of-supply) x consumption x revenue-per-unit, cost 120,000 times the
\* number of qualifying rows, net = loss - cost; (0, 0, 0) when no record is
\* CRITICAL; (1,000,000, 120,000, 880,000) for a single CRITICAL record with
\* lead time 35, days-of-supply 30, consumption 500, revenue-per-unit 400.
\* (The triple is held in tenths of a currency unit.)
C2_ImpactTriple ==
    AfterRun =>
        LET impact == session_state.impact
            Q == QualifyingRows(Table)
        IN  /\ Len(impact) = 3
            /\ impact[1] = SumOver(Table, Q)
            /\ impact[2] = 10 * 120000 * Cardinality(Q)
            /\ impact[3] = impact[1] - impact[2]
            /\ CriticalRows(Table) = {} => impact = <<0, 0, 0>>
            /\ (\E i \in DOMAIN Table :
                    /\ CriticalRows(Table) = {i}
                    /\ Table[i].Lead_Time_Days = 35
                    /\ Table[i].Days_of_Supply = [num |-> 300, den |-> 10]
                    /\ Table[i].Daily_Consumption = 500
                    /\ Table[i].Revenue_Per_Unit = 400)
                => impact = <<10 * 1000000, 10 * 120000, 10 * 880000>>

\* The scenario's table: the one CRITICAL record, and its triple.
C2_Witness ==
    /\ AfterRun
    /\ \E i \in DOMAIN Table :
            /\ CriticalRows(Table) = {i}
            /\ Table[i].Lead_Time_Days = 35
            /\ Table[i].Days_of_Supply = [num |-> 300, den |-> 10]
            /\ Table[i].Daily_Consumption = 500
            /\ Table[i].Revenue_Per_Unit = 400
    /\ session_state.impact = <<10000000, 1200000, 8800000>>

---------------------------------------------------------------------------
(* C3 *)

History == session_state.history

\* C3 as stated: the history entry a run appends carries the net-value element
\* of the impact triple of that run, whatever the outcome of the run.
C3_EntryIsNetValue ==
    AfterRun =>
        /\ History # <<>>
        /\ History[Len(History)].Net_Value_Generated = session_state.impact[3]

\* C3 as amended: the entry carries the net-value element when that is
\* positive, and 0 when the mitigation cost reaches or exceeds the loss.
C3_EntryIsClampedNetValue ==
    AfterRun =>
        /\ History # <<>>
        /\ session_state.impact[3] > 0
            => History[Len(History)].Net_Value_Generated = session_state.impact[3]
        /\ session_state.impact[3] <= 0
            => History[Len(History)].Net_Value_Generated = 0

\* A run whose mitigation cost exceeds its loss, recorded as 0.
C3_Witness ==
    /\ AfterRun
    /\ session_state.impact[3] < 0
    /\ History[Len(History)].Net_Value_Generated = 0

---------------------------------------------------------------------------
(* C4 *)

\* C4: the history is append-only between resets: a run adds exactly one
\* entry after the entries it found, which it leaves as they are; the k-th
\* entry carries sequence number k; a reset leaves no entry.  So after n runs
\* since the last reset the history holds n entries, numbered 1..n.
C4_AppendOnly ==
    /\ [](\A k \in DOMAIN History : History[k].Run = k)
    /\ [][/\ last_button' = "run" =>
                /\ Len(History') = Len(History) + 1
                /\ SubSeq(History', 1, Len(History)) = History
                /\ History'[Len(History')].Run = Len(History) + 1
          /\ last_button' = "reset" => History' = <<>>]_vars

\* Two runs since the last reset, two entries.
C4_Witness ==
    /\ AfterRun
    /\ Len(History) = 2
    /\ History[1].Run = 1
    /\ History[2].Run = 2

---------------------------------------------------------------------------
(* C5 *)

\* C5: Reset, from any reachable state, leaves the Builder's table (8
\* records, every status Nominal, every alert empty, the builder's lead times
\* and consumptions), an empty history, no event sequence and no impact: a
\* freshly initialised session.
C5_ResetIsFresh ==
    last_button = "reset" =>
        /\ DOMAIN session_state = {"supply_data", "impact", "history"}
        /\ session_state.history = <<>>
        /\ session_state.impact = None
        /\ DOMAIN Table = 1..8
        /\ \A i \in DOMAIN Table :
              /\ Table[i].Status = "Nominal"
              /\ Table[i].Alerts.text = "-"
              /\ Table[i].Lead_Time_Days = Lead_Times[i]
              /\ Table[i].Daily_Consumption = Daily_Consumptions[i]
              /\ Table[i] = Base[i]
        /\ session_state = FreshSession

\* The state a reset leaves.
C5_Witness ==
    /\ last_button = "reset"
    /\ session_state.history = <<>>
    /\ ~HasEvents(session_state)

---------------------------------------------------------------------------
(* C6 *)

Events == session_state.events

\* What C6 says of an invocation, but for the bound on the spike factor:
\* 1 or 2 events, each of a category of the enumeration, each delay within its
\* category's range and added to every record sharing the chosen key.
EventsWithinRanges ==
    /\ Len(Events) \in {1, 2}
    /\ \A k \in DOMAIN Events :
          LET e == Events[k]
          IN  /\ e.type \in {"Port Congestion", "Geopolitical Tension",
                             "Production Slowdown", "Demand Spike"}
              /\ e.type = "Port Congestion" => e.magnitude \in 5..10
              /\ e.type = "Geopolitical Tension" => e.magnitude \in 7..12
              /\ e.type = "Production Slowdown" => e.magnitude \in 4..8
              /\ e.type = "Demand Spike" => e.magnitude \in 120..150
              /\ \E i \in DOMAIN Base : EventMatches(e, Base[i])
    /\ \A i \in DOMAIN Base :
          df_after_events[i].Lead_Time_Days
              = Base[i].Lead_Time_Days + DelaySum(Events, Base[i])

\* The consumption c2 that n Demand Spikes leave of a consumption c, each
\* spike within Spiked(_, _).
SpikedTimes(Spiked(_, _), n, c, c2) ==
    CASE n = 0 -> c2 = c
      [] n = 1 -> Spiked(c, c2)
      [] n = 2 -> \E c1 \in c..c2 : Spiked(c, c1) /\ Spiked(c1, c2)

\* C6 as stated: ... and a Demand Spike replaces the consumption c of the
\* chosen component by trunc(c x f) for some factor f with 1.20 <= f < 1.50.
C6_FactorBelow150 ==
    AfterRun =>
        /\ EventsWithinRanges
        /\ \A i \in DOMAIN Base :
              SpikedTimes(SpikedBelow150, SpikeCount(Events, Base[i]),
                          Base[i].Daily_Consumption, df_after_events[i].Daily_Consumption)

\* C6 as amended: ... for some factor f with 1.20 <= f <= 1.50.
C6_FactorUpTo150 ==
    AfterRun =>
        /\ EventsWithinRanges
        /\ \A i \in DOMAIN Base :
              SpikedTimes(SpikedUpTo150, SpikeCount(Events, Base[i]),
                          Base[i].Daily_Consumption, df_after_events[i].Daily_Consumption)

\* An invocation of two events, a delay and a spike that changed a consumption.
C6_Witness ==
    /\ AfterRun
    /\ Len(Events) = 2
    /\ \E k \in DOMAIN Events : IsDelayEvent(Events[k])
    /\ \E i \in DOMAIN Base :
          /\ SpikeCount(Events, Base[i]) = 1
          /\ df_after_events[i].Daily_Consumption > Base[i].Daily_Consumption

---------------------------------------------------------------------------
(* C7 *)

\* C7: simulate_disruptive_events changes only the lead time of the records
\* matching a selected lane, origin or supplier and the consumption of a
\* component selected by a Demand Spike: a record no event matches is
\* unchanged in every field; in every record the name, supplier, secondary
\* supplier, origin, lane, stock and revenue-per-unit are unchanged; no record
\* is added or removed.
C7_SimulatorFrame ==
    AfterRun =>
        /\ DOMAIN df_after_events = DOMAIN Base
        /\ \A i \in DOMAIN Base :
              LET old == Base[i]
                  new == df_after_events[i]
              IN  /\ (\A k \in DOMAIN Events : ~EventMatches(Events[k], old)) => new = old
                  /\ new.Component = old.Component
                  /\ new.Supplier = old.Supplier
                  /\ new.Secondary_Supplier = old.Secondary_Supplier
                  /\ new.Origin = old.Origin
                  /\ new.Shipping_Lane = old.Shipping_Lane
                  /\ new.On_Hand_Stock = old.On_Hand_Stock
                  /\ new.Revenue_Per_Unit = old.Revenue_Per_Unit
                  /\ new.Lead_Time_Days # old.Lead_Time_Days
                        => \E k \in DOMAIN Events :
                              IsDelayEvent(Events[k]) /\ EventMatches(Events[k], old)
                  /\ new.Daily_Consumption # old.Daily_Consumption
                        => SpikeCount(Events, old) > 0

\* An invocation that changed some records and matched none of the others.
C7_Witness ==
    /\ AfterRun
    /\ \E i \in DOMAIN Base : df_after_events[i].Lead_Time_Days # Base[i].Lead_Time_Days
    /\ \E i \in DOMAIN Base : df_after_events[i].Daily_Consumption # Base[i].Daily_Consumption
    /\ \E i \in DOMAIN Base : \A k \in DOMAIN Events : ~EventMatches(Events[k], Base[i])

---------------------------------------------------------------------------
(* C8 *)

\* C8: each run starts from a fresh base table, so disruptions never
\* accumulate: after any sequence of runs the stored table is the classified
\* base table perturbed by the latest run's 1-2 events alone; in every
\* reachable state each lead time is at least its builder value and at most
\* 24 days more, and each stock is its builder value.
C8_NoAccumulation ==
    /\ DOMAIN Table = DOMAIN Base
    /\ \A i \in DOMAIN Base :
          /\ Table[i].Lead_Time_Days >= Base[i].Lead_Time_Days
          /\ Table[i].Lead_Time_Days <= Base[i].Lead_Time_Days + 24
          /\ Table[i].On_Hand_Stock = Base[i].On_Hand_Stock
    /\ AfterRun =>
          /\ Len(Events) \in {1, 2}
          /\ \A i \in DOMAIN Base :
                /\ Table[i].Lead_Time_Days
                      = Base[i].Lead_Time_Days + DelaySum(Events, Base[i])
                /\ SpikedTimes(SpikedUpTo150, SpikeCount(Events, Base[i]),
                               Base[i].Daily_Consumption, Table[i].Daily_Consumption)
                /\ Table[i].Status = "CRITICAL"
                      <=> Table[i].Days_of_Supply.num < 10 * Table[i].Lead_Time_Days
    /\ ~AfterRun => Table = Base

\* A second run whose two events add 24 days to a lead time.
C8_Witness ==
    /\ AfterRun
    /\ Len(History) = 2
    /\ \E i \in DOMAIN Base : Table[i].Lead_Time_Days = Base[i].Lead_Time_Days + 24

---------------------------------------------------------------------------
(* C9 *)

\* C9 as stated: in every table the Builder, the Event Simulator and the
\* Classifier produce, days-of-supply is stock / consumption within the
\* rounding tolerance.
C9_AlwaysRecomputed ==
    /\ \A i \in DOMAIN Table : WithinRounding(Table[i])
    /\ \A i \in DOMAIN df_after_events : WithinRounding(df_after_events[i])

\* C9 as amended: it is so in every table the Builder and the Classifier
\* produce; the Event Simulator leaves days-of-supply as the Builder set it,
\* so in its table it is so for the records whose consumption no Demand Spike
\* changed, until the Classifier recomputes it.
C9_RecomputedByClassifier ==
    /\ \A i \in DOMAIN Base : WithinRounding(Base[i])
    /\ \A i \in DOMAIN Table : WithinRounding(Table[i])
    /\ \A i \in DOMAIN df_after_events :
          /\ df_after_events[i].Days_of_Supply = Base[i].Days_of_Supply
          /\ df_after_events[i].Daily_Consumption = Base[i].Daily_Consumption
                => WithinRounding(df_after_events[i])

\* A classified table one of whose consumptions a Demand Spike changed.
C9_Witness ==
    /\ AfterRun
    /\ \E i \in DOMAIN Base :
          /\ Table[i].Daily_Consumption # Base[i].Daily_Consumption
          /\ Table[i].Days_of_Supply # Base[i].Days_of_Supply
          /\ ~WithinRounding(df_after_events[i])

---------------------------------------------------------------------------
(* C10 *)

\* C10: on a table run_sentinel_agent produced, the alert-text match and the
\* shortfall_days > 0 test exclude no CRITICAL row: the mitigation cost is
\* 120,000 times the number of CRITICAL records, and the potential loss is
\* positive if and only if some record is CRITICAL.
C10_EveryCriticalQualifies ==
    AfterRun =>
        /\ QualifyingRows(Table) = CriticalRows(Table)
        /\ session_state.impact[2] = 10 * 120000 * Cardinality(CriticalRows(Table))
        /\ session_state.impact[1] > 0 <=> CriticalRows(Table) # {}

\* A table with several CRITICAL records, all counted.
C10_Witness ==
    /\ AfterRun
    /\ Cardinality(CriticalRows(Table)) >= 2
    /\ session_state.impact[2] = 10 * 120000 * Cardinality(CriticalRows(Table))

=============================================================================
